---------------------------- MODULE Spec2Model ----------------------------
(***************************************************************************)
(* Model of cpp/src/arrow/dataset/scanner_internal.h:                      *)
(*   FilterRecordBatch, ProjectRecordBatch, FilterAndProjectScanTask and   *)
(*   GetScanTaskIterator.                                                  *)
(*                                                                         *)
(* Four specifications share the module:                                   *)
(*   Spec      the scan task materializer (GetScanTaskIterator) pulled by  *)
(*             one consumer over a finite sequence of fragments;           *)
(*   SpecLive  the same with a consumer that keeps pulling;                *)
(*   SpecTask  decorated tasks (FilterAndProjectScanTask) that share one   *)
(*             ScanOptions, executed and pulled by one worker each, which  *)
(*             holds the task while it pulls;                              *)
(*   SpecLifetime  the same tasks with consumers that may drop the batch   *)
(*             sequence and the task at any time between their calls.      *)
(*                                                                         *)
(* The iterator combinators (MakeMapIterator, MakeMaybeMapIterator,        *)
(* MakeFlattenIterator), Expression::Assume, the ExpressionEvaluator, the  *)
(* RecordBatchProjector and KeyValuePartitioning are declared in headers   *)
(* that scanner_internal.h includes; they are modelled from their          *)
(* documented contract.                                                    *)
(***************************************************************************)
EXTENDS Integers, Sequences, FiniteSets, TLC

(***************************************************************************)
(* Bounds of the model.                                                    *)
(***************************************************************************)
MaxFragments == 2
MaxTasks == 3
MaxBatches == 2

(***************************************************************************)
(* Values.                                                                 *)
(***************************************************************************)
NULLPTR == "nullptr"
PartitionKey == "region"
PartitionValues == {"east", "west"}

\* A partition expression region == v is written as the value v it binds
\* the key to; NULLPTR is the absent expression.
Partitions ==
    {NULLPTR} \cup PartitionValues

(***************************************************************************)
(* Expressions.  A filter is a conjunction of comparisons field == value,  *)
(* or the literal false (never); null is the absent expression (NULLPTR).  *)
(***************************************************************************)
Cmp(f, v) ==
    [field |-> f, value |-> v]
Conj(atoms) ==
    [null |-> FALSE, never |-> FALSE, atoms |-> atoms]
NullExpression ==
    [null |-> TRUE, never |-> FALSE, atoms |-> {}]

\* The global filters the scan options may hold.
Filters ==
    {Conj({Cmp("x", "a")}),
     Conj({Cmp(PartitionKey, "west")}),
     Conj({Cmp("x", "a"), Cmp(PartitionKey, "west")})}

(***************************************************************************)
(* Record batches.  A row has an id (its place in the raw batch), a data   *)
(* column x and the partition column region, which is NULLPTR in every row *)
(* of a batch that lacks the column.  no is the batch's place in the inner *)
(* task's sequence, set when the inner iterator yields it.                 *)
(***************************************************************************)
Row(i, x, r) ==
    [id |-> i, x |-> x, region |-> r]
Batch(has, rows) ==
    [no |-> 0, hasRegion |-> has, rows |-> rows]
NoBatch ==
    Batch(FALSE, <<>>)

BatchNoKey ==
    Batch(FALSE, <<Row(1, "a", NULLPTR), Row(2, "b", NULLPTR)>>)
BatchWest ==
    Batch(TRUE, <<Row(1, "a", "west"), Row(2, "b", "west")>>)
BatchMixed ==
    Batch(TRUE, <<Row(1, "a", "east"), Row(2, "a", "west")>>)
Batches ==
    {BatchNoKey, BatchWest, BatchMixed}

\* The batch sequences an inner task may produce.
InnerSeqs ==
    UNION {[1 .. n -> Batches] : n \in 0 .. MaxBatches}

\* The inner sequence of each of two tasks that run side by side.
PairInner ==
    <<BatchNoKey, BatchWest>>

Tasks == {1, 2}

VARIABLES
    fragments,   \* the FragmentIterator's content: <<[partition, scanOk, tasks]>>
    flat,        \* state of the flattened ScanTaskIterator
    scanCalls,   \* fragments whose Scan has been invoked, in call order
    yielded,     \* results the consumer got from the flattened iterator
    done,        \* the consumer got the end of the flattened iterator
    options,     \* the shared ScanOptions: [filter]
    dtask,       \* the decorated tasks and their batch sequences
    projectors   \* the RecordBatchProjector instances

scanVars == <<fragments, flat, scanCalls, yielded, done>>
taskVars == <<options, dtask, projectors>>
vars == <<scanVars, taskVars>>

(***************************************************************************)
(* FilterAndProjectScanTask::FilterAndProjectScanTask: the decorated task  *)
(* as constructed, before Execute.  task = <<fragment, index>> names the   *)
(* raw task it wraps.                                                      *)
(***************************************************************************)
FilterAndProjectScanTask(task, partition) ==
    [class |-> "FilterAndProjectScanTask", frag |-> task[1], idx |-> task[2],
     partition_ |-> partition, filter_ |-> NullExpression]

\* A raw scan task of a fragment, as the fragment's own iterator yields it.
RawScanTask(task) ==
    [class |-> "ScanTask", frag |-> task[1], idx |-> task[2],
     partition_ |-> NULLPTR, filter_ |-> NullExpression]

\* Results of Next(): a value, an error Status, or the end of the iteration.
Value(v) ==
    [kind |-> "value", value |-> v]
ErrorOf(i) ==
    [kind |-> "error",
     value |-> [class |-> "Status", frag |-> i, idx |-> 0,
                partition_ |-> NULLPTR, filter_ |-> NullExpression]]
EndOfIteration ==
    [kind |-> "end",
     value |-> [class |-> "End", frag |-> 0, idx |-> 0,
                partition_ |-> NULLPTR, filter_ |-> NullExpression]]

(***************************************************************************)
(* Fragment::Scan fails, or gives an iterator over the fragment's raw      *)
(* tasks.                                                                  *)
(***************************************************************************)
ScanOk(frags, i) ==
    frags[i].scanOk

\* No child iterator (IterationTraits<Iterator<T>>::End()).
NoChild ==
    [live |-> FALSE, frag |-> 0, next |-> 0, count |-> 0,
     closure |-> [partition |-> NULLPTR]]

\* wrap_scan_task: the lambda captures `partition` by copy and is not
\* mutable, so std::move(partition) copies: every call passes the
\* fragment's partition expression.  c is the closure; the result is the
\* wrapped task and the closure afterwards.
wrap_scan_task_unwrapped(c, task) ==
    [task |-> RawScanTask(task), closure |-> c]

wrap_scan_task_moved(c, task) ==
    [task |-> FilterAndProjectScanTask(task, c.partition),
     closure |-> [c EXCEPT !.partition = NULLPTR]]

wrap_scan_task(c, task) ==
    [task |-> FilterAndProjectScanTask(task, c.partition), closure |-> c]

\* fn: Fragment -> Result<ScanTaskIterator>.  The iterator returned is the
\* MapIterator of wrap_scan_task over the fragment's scan_task_it.
fn_swallow(frags, i) ==
    [ok |-> TRUE,
     it |-> [live |-> TRUE, frag |-> i, next |-> 1,
             count |-> IF ScanOk(frags, i) THEN frags[i].tasks ELSE 0,
             closure |-> [partition |-> frags[i].partition]]]

fn(frags, i) ==
    IF ~ScanOk(frags, i)
    THEN [ok |-> FALSE, it |-> NoChild]
    ELSE [ok |-> TRUE,
          it |-> [live |-> TRUE, frag |-> i, next |-> 1,
                  count |-> frags[i].tasks,
                  closure |-> [partition |-> frags[i].partition]]]

(***************************************************************************)
(* MakeMapIterator(wrap_scan_task, scan_task_it).Next(): the end of the    *)
(* inner iterator, or the map of its next element.                         *)
(***************************************************************************)
MapNext(c) ==
    IF c.next > c.count
    THEN [result |-> EndOfIteration, it |-> c]
    ELSE LET w == wrap_scan_task(c.closure, <<c.frag, c.next>>)
         IN  [result |-> Value(w.task),
              it |-> [c EXCEPT !.next = c.next + 1, !.closure = w.closure]]

(***************************************************************************)
(* MakeFlattenIterator(MakeMaybeMapIterator(fn, fragments)).Next().        *)
(* s = [parent, child, scans]: fragments taken from the outer iterator,    *)
(* the current child iterator, the Scan calls made.  While there is no     *)
(* child, the next fragment is taken and fn applied to it: an error is     *)
(* yielded as the result of this Next() and leaves no child; a child that  *)
(* is at its end is dropped and the next fragment taken.                   *)
(***************************************************************************)
RECURSIVE FlattenNext(_, _)
FlattenNext(frags, s) ==
    IF ~s.child.live
    THEN IF s.parent = Len(frags)
         THEN [result |-> EndOfIteration, s |-> s]
         ELSE LET i == s.parent + 1
                  r == fn(frags, i)
                  t == [s EXCEPT !.parent = i, !.scans = Append(s.scans, i)]
              IN  IF ~r.ok
                  THEN [result |-> ErrorOf(i), s |-> t]
                  ELSE FlattenNext(frags, [t EXCEPT !.child = r.it])
    ELSE LET m == MapNext(s.child)
         IN  IF m.result.kind = "end"
             THEN FlattenNext(frags, [s EXCEPT !.child = NoChild])
             ELSE [result |-> m.result, s |-> [s EXCEPT !.child = m.it]]

(***************************************************************************)
(* GetScanTaskIterator: builds the iterators and calls nothing.            *)
(***************************************************************************)
GetScanTaskIterator_eager(frags) ==
    IF Len(frags) = 0
    THEN [parent |-> 0, child |-> NoChild, scans |-> <<>>]
    ELSE [parent |-> 1, child |-> fn(frags, 1).it, scans |-> <<1>>]

GetScanTaskIterator(frags) ==
    [parent |-> 0, child |-> NoChild, scans |-> <<>>]

(***************************************************************************)
(* The materializer's inputs: every sequence of at most MaxFragments       *)
(* fragments, each with a partition expression (or none) and a Scan that   *)
(* fails or yields 0..MaxTasks raw tasks (tasks = 0 when it fails).        *)
(***************************************************************************)
FragmentValues ==
    [partition : Partitions, scanOk : {TRUE}, tasks : 0 .. MaxTasks]
        \cup [partition : Partitions, scanOk : {FALSE}, tasks : {0}]

FragmentSeqs ==
    UNION {[1 .. n -> FragmentValues] : n \in 0 .. MaxFragments}

ScanInit ==
    /\ fragments \in FragmentSeqs
    /\ flat = [k \in {"parent", "child"} |->
                  GetScanTaskIterator(fragments)[k]]
    /\ scanCalls = GetScanTaskIterator(fragments).scans
    /\ yielded = <<>>
    /\ done = FALSE

\* The consumer calls Next() on the flattened iterator.
Pull_stopsAtError ==
    /\ ~done
    /\ LET r == FlattenNext(fragments, [parent |-> flat.parent,
                                        child |-> flat.child,
                                        scans |-> scanCalls])
       IN  /\ flat' = [parent |-> r.s.parent, child |-> r.s.child]
           /\ scanCalls' = r.s.scans
           /\ IF r.result.kind = "end"
              THEN done' = TRUE /\ yielded' = yielded
              ELSE /\ done' = (r.result.kind = "error")
                   /\ yielded' = Append(yielded, r.result)
    /\ UNCHANGED <<fragments, taskVars>>

Pull ==
    /\ ~done
    /\ LET r == FlattenNext(fragments,
                    [parent |-> flat.parent, child |-> flat.child,
                     scans |-> scanCalls])
       IN  /\ flat' = [parent |-> r.s.parent, child |-> r.s.child]
           /\ scanCalls' = r.s.scans
           /\ IF r.result.kind = "end"
              THEN done' = TRUE /\ yielded' = yielded
              ELSE done' = FALSE /\ yielded' = Append(yielded, r.result)
    /\ UNCHANGED <<fragments, taskVars>>

(***************************************************************************)
(* Expression::Assume(partition): the filter simplified under the          *)
(* assumption that the partition expression holds.  A comparison on the    *)
(* partition key becomes true (and is dropped) when the partition binds    *)
(* the key to the same value, and makes the whole filter false when it     *)
(* binds it to another; an absent partition expression changes nothing.    *)
(***************************************************************************)
Assume(filter, partition) ==
    IF partition = NULLPTR THEN filter
    ELSE IF \E c \in filter.atoms :
                c.field = PartitionKey /\ c.value # partition
         THEN [filter EXCEPT !.never = TRUE, !.atoms = {}]
         ELSE [filter EXCEPT
                  !.atoms = {c \in filter.atoms : c.field # PartitionKey}]

\* The value of a field in a row of a batch.
Field(row, f) ==
    IF f = PartitionKey THEN row.region ELSE row.x

(***************************************************************************)
(* ExpressionEvaluator::Evaluate: the selection, one boolean per row.  A   *)
(* comparison on a column the batch lacks is null and selects nothing.     *)
(***************************************************************************)
Evaluate(filter, batch) ==
    [k \in 1 .. Len(batch.rows) |->
        /\ ~filter.never
        /\ \A c \in filter.atoms : Field(batch.rows[k], c.field) = c.value]

RECURSIVE SelectRows(_, _, _)
SelectRows(rows, selection, n) ==
    IF n = 0 THEN <<>>
    ELSE SelectRows(rows, selection, n - 1)
            \o (IF selection[n] THEN <<rows[n]>> ELSE <<>>)

\* ExpressionEvaluator::Filter: the rows of the batch the selection keeps.
Filter(selection, batch) ==
    [batch EXCEPT !.rows = SelectRows(batch.rows, selection, Len(batch.rows))]

(***************************************************************************)
(* RecordBatchProjector.  An instance holds the default value of the       *)
(* partition column; Project gives the batch in the target schema (x,      *)
(* region), a column the batch lacks filled with the default.              *)
(***************************************************************************)
TemplateProjector ==
    [live |-> TRUE, defaults |-> NULLPTR]
Destroyed ==
    [live |-> FALSE, defaults |-> NULLPTR]

Project(projector, batch) ==
    [batch EXCEPT
        !.hasRegion = TRUE,
        !.rows = [k \in 1 .. Len(batch.rows) |->
                     IF batch.hasRegion THEN batch.rows[k]
                     ELSE [batch.rows[k] EXCEPT !.region = projector.defaults]]]

\* KeyValuePartitioning::SetDefaultValuesFromKeys(expr, projector).
SetDefaultValuesFromKeys(partition, projector) ==
    [projector EXCEPT !.defaults = partition]

\* Results of a batch iterator's Next().
Ok(b) ==
    [kind |-> "value", stage |-> "none", batch |-> b]
Status(stage) ==
    [kind |-> "error", stage |-> stage, batch |-> NoBatch]

(***************************************************************************)
(* The lambda of FilterRecordBatch: Evaluate, then Filter on its result    *)
(* (Result::Map); either may fail.  The result also tells which of the two *)
(* were called.                                                            *)
(***************************************************************************)
FilterRecordBatch_unfiltered(filter, in, evalOk, filterOk) ==
    [result |-> Ok(in), evaluate |-> 0, filter |-> 0]

FilterRecordBatch_ignoreStatus(filter, in, evalOk, filterOk) ==
    IF ~evalOk
    THEN [result |-> Ok(in), evaluate |-> 1, filter |-> 0]
    ELSE [result |-> Ok(Filter(Evaluate(filter, in), in)),
          evaluate |-> 1, filter |-> 1]

FilterRecordBatch(filter, in, evalOk, filterOk) ==
    IF ~evalOk
    THEN [result |-> Status("evaluate"), evaluate |-> 1, filter |-> 0]
    ELSE IF ~filterOk
         THEN [result |-> Status("filter"), evaluate |-> 1, filter |-> 1]
         ELSE [result |-> Ok(Filter(Evaluate(filter, in), in)),
               evaluate |-> 1, filter |-> 1]

\* The lambda of ProjectRecordBatch after its copy of the projector:
\* local_projector.Project(*in, pool).
ProjectRecordBatch(local_projector, in, projectOk) ==
    IF projectOk THEN Ok(Project(local_projector, in)) ELSE Status("project")

(***************************************************************************)
(* The projector instances: the template in the scan options, the          *)
(* projector_ member of each task (a copy made by the constructor) and the *)
(* local_projector of each task's running ProjectRecordBatch lambda.       *)
(***************************************************************************)
Template ==
    <<"options", 0>>

OwnProjector_template(t) ==
    Template

OwnProjector(t) ==
    <<"projector_", t>>

LocalProjector_shared(t) ==
    <<"local_projector", 0>>

LocalProjector(t) ==
    <<"local_projector", t>>

Instances ==
    {Template} \cup {<<"local_projector", 0>>}
        \cup {<<"projector_", t>> : t \in Tasks}
        \cup {<<"local_projector", t>> : t \in Tasks}

(***************************************************************************)
(* A decorated task with the state of the batch sequence its Execute       *)
(* returns: pc (unexecuted, innerFailed, defaultsFailed, ready, filtered,  *)
(* copied, ended; absent when the task does not exist), the inner task's   *)
(* batches, how many of them were taken (pos), the batch between the two   *)
(* stages (cur), the results yielded (out), the consumer's Next() calls    *)
(* (pulls), the calls made on the collaborators (calls) and the accesses   *)
(* made to members of the task after its destruction (dangling); pc is     *)
(* discarded once the consumer dropped the sequence, crashed when such an  *)
(* access ended the process.                                               *)
(***************************************************************************)
NoCalls ==
    [next |-> 0, evaluate |-> 0, filter |-> 0, copy |-> 0, project |-> 0]

NewTask(t, partition, inner) ==
    [obj |-> FilterAndProjectScanTask(<<0, t>>, partition),
     inner |-> inner, pc |-> "unexecuted", pos |-> 0, cur |-> NoBatch,
     out |-> <<>>, pulls |-> 0, calls |-> NoCalls, dangling |-> 0]

AbsentTask ==
    [NewTask(0, NULLPTR, <<>>) EXCEPT !.pc = "absent"]

(***************************************************************************)
(* Next() on the sequence Execute returns, up to the end of the filter     *)
(* stage: the projection stage's MapIterator asks the filter stage's,      *)
(* which asks the inner task's iterator.  The end is passed on; a batch is *)
(* given to the FilterRecordBatch lambda, whose error is the result of     *)
(* this Next() and whose batch goes on to the ProjectRecordBatch lambda.   *)
(***************************************************************************)
FilterNext_skipEmpty(self, evalOk, filterOk) ==
    LET called == [self EXCEPT !.pulls = @ + 1, !.calls.next = @ + 1]
    IN  IF self.pos = Len(self.inner)
        THEN [called EXCEPT !.pc = "ended"]
        ELSE LET in == [self.inner[self.pos + 1] EXCEPT !.no = self.pos + 1]
                 r == FilterRecordBatch(self.obj.filter_, in, evalOk, filterOk)
                 s1 == [called EXCEPT
                           !.pos = @ + 1,
                           !.calls.evaluate = @ + r.evaluate,
                           !.calls.filter = @ + r.filter]
             IN  IF r.result.kind = "error"
                 THEN [s1 EXCEPT !.out = Append(@, r.result)]
                 ELSE IF Len(r.result.batch.rows) = 0
                      THEN s1
                      ELSE [s1 EXCEPT !.cur = r.result.batch,
                                      !.pc = "filtered"]

FilterNext_projectFailed(self, evalOk, filterOk) ==
    LET called == [self EXCEPT !.pulls = @ + 1, !.calls.next = @ + 1]
    IN  IF self.pos = Len(self.inner)
        THEN [called EXCEPT !.pc = "ended"]
        ELSE LET in == [self.inner[self.pos + 1] EXCEPT !.no = self.pos + 1]
                 r == FilterRecordBatch(self.obj.filter_, in, evalOk, filterOk)
                 s1 == [called EXCEPT
                           !.pos = @ + 1,
                           !.calls.evaluate = @ + r.evaluate,
                           !.calls.filter = @ + r.filter]
             IN  IF r.result.kind = "error"
                 THEN [s1 EXCEPT !.cur = in, !.pc = "filtered"]
                 ELSE [s1 EXCEPT !.cur = r.result.batch, !.pc = "filtered"]

FilterNext(self, evalOk, filterOk) ==
    LET called == [self EXCEPT !.pulls = @ + 1, !.calls.next = @ + 1]
    IN  IF self.pos = Len(self.inner)
        THEN [called EXCEPT !.pc = "ended"]
        ELSE LET in == [self.inner[self.pos + 1] EXCEPT !.no = self.pos + 1]
                 r == FilterRecordBatch(self.obj.filter_, in, evalOk, filterOk)
                 s1 == [called EXCEPT
                           !.pos = @ + 1,
                           !.calls.evaluate = @ + r.evaluate,
                           !.calls.filter = @ + r.filter]
             IN  IF r.result.kind = "error"
                 THEN [s1 EXCEPT !.out = Append(@, r.result)]
                 ELSE [s1 EXCEPT !.cur = r.result.batch, !.pc = "filtered"]

(***************************************************************************)
(* FilterAndProjectScanTask::Execute.  self is the task, own the state of  *)
(* its projector_; taskOk and keysOk tell whether task_->Execute() and     *)
(* SetDefaultValuesFromKeys succeed.  Gives the task and its projector_    *)
(* afterwards.                                                             *)
(***************************************************************************)
Execute_specializeFirst(self, opts, own, taskOk, keysOk) ==
    LET s1 == [self EXCEPT
                  !.obj.filter_ = Assume(opts.filter, self.obj.partition_)]
    IN  IF ~taskOk
        THEN [self |-> [s1 EXCEPT !.pc = "innerFailed"], projector_ |-> own]
        ELSE IF self.obj.partition_ # NULLPTR /\ ~keysOk
             THEN [self |-> [s1 EXCEPT !.pc = "defaultsFailed"],
                   projector_ |-> own]
             ELSE [self |-> [s1 EXCEPT !.pc = "ready"],
                   projector_ |->
                       IF self.obj.partition_ # NULLPTR
                       THEN SetDefaultValuesFromKeys(self.obj.partition_, own)
                       ELSE own]

Execute_eager(self, opts, own, taskOk, keysOk) ==
    IF ~taskOk
    THEN [self |-> [self EXCEPT !.pc = "innerFailed"], projector_ |-> own]
    ELSE LET s1 == [self EXCEPT
                       !.obj.filter_ =
                           Assume(opts.filter, self.obj.partition_)]
         IN  IF self.obj.partition_ # NULLPTR /\ ~keysOk
             THEN [self |-> [s1 EXCEPT !.pc = "defaultsFailed"],
                   projector_ |-> own]
             ELSE [self |->
                       [FilterNext([s1 EXCEPT !.pc = "ready"], TRUE, TRUE)
                           EXCEPT !.pulls = 0],
                   projector_ |->
                       IF self.obj.partition_ # NULLPTR
                       THEN SetDefaultValuesFromKeys(self.obj.partition_, own)
                       ELSE own]

Execute_noDefaults(self, opts, own, taskOk, keysOk) ==
    IF ~taskOk
    THEN [self |-> [self EXCEPT !.pc = "innerFailed"], projector_ |-> own]
    ELSE LET s1 == [self EXCEPT
                       !.obj.filter_ =
                           Assume(opts.filter, self.obj.partition_)]
         IN  IF self.obj.partition_ # NULLPTR /\ ~keysOk
             THEN [self |-> [s1 EXCEPT !.pc = "defaultsFailed"],
                   projector_ |-> own]
             ELSE [self |-> [s1 EXCEPT !.pc = "ready"], projector_ |-> own]

Execute_unspecialized(self, opts, own, taskOk, keysOk) ==
    IF ~taskOk
    THEN [self |-> [self EXCEPT !.pc = "innerFailed"], projector_ |-> own]
    ELSE LET s1 == [self EXCEPT !.obj.filter_ = opts.filter]
         IN  IF self.obj.partition_ # NULLPTR /\ ~keysOk
             THEN [self |-> [s1 EXCEPT !.pc = "defaultsFailed"],
                   projector_ |-> own]
             ELSE [self |-> [s1 EXCEPT !.pc = "ready"],
                   projector_ |->
                       IF self.obj.partition_ # NULLPTR
                       THEN SetDefaultValuesFromKeys(self.obj.partition_, own)
                       ELSE own]

Execute_alwaysSetDefaults(self, opts, own, taskOk, keysOk) ==
    IF ~taskOk
    THEN [self |-> [self EXCEPT !.pc = "innerFailed"], projector_ |-> own]
    ELSE LET s1 == [self EXCEPT
                       !.obj.filter_ =
                           Assume(opts.filter, self.obj.partition_)]
         IN  IF ~keysOk
             THEN [self |-> [s1 EXCEPT !.pc = "defaultsFailed"],
                   projector_ |-> own]
             ELSE [self |-> [s1 EXCEPT !.pc = "ready"],
                   projector_ |->
                       SetDefaultValuesFromKeys(self.obj.partition_, own)]

Execute_failLate(self, opts, own, taskOk, keysOk) ==
    IF ~taskOk
    THEN [self |-> [self EXCEPT !.pc = "innerFailed"], projector_ |-> own]
    ELSE LET s1 == [self EXCEPT
                       !.obj.filter_ =
                           Assume(opts.filter, self.obj.partition_)]
         IN  IF self.obj.partition_ # NULLPTR /\ ~keysOk
             THEN [self |->
                       [FilterNext([s1 EXCEPT !.pc = "ready"], TRUE, TRUE)
                           EXCEPT !.pc = "defaultsFailed"],
                   projector_ |-> own]
             ELSE [self |-> [s1 EXCEPT !.pc = "ready"],
                   projector_ |->
                       IF self.obj.partition_ # NULLPTR
                       THEN SetDefaultValuesFromKeys(self.obj.partition_, own)
                       ELSE own]

Execute(self, opts, own, taskOk, keysOk) ==
    IF ~taskOk
    THEN [self |-> [self EXCEPT !.pc = "innerFailed"], projector_ |-> own]
    ELSE LET s1 == [self EXCEPT
                       !.obj.filter_ =
                           Assume(opts.filter, self.obj.partition_)]
         IN  IF self.obj.partition_ # NULLPTR /\ ~keysOk
             THEN [self |-> [s1 EXCEPT !.pc = "defaultsFailed"],
                   projector_ |-> own]
             ELSE [self |-> [s1 EXCEPT !.pc = "ready"],
                   projector_ |->
                       IF self.obj.partition_ # NULLPTR
                       THEN SetDefaultValuesFromKeys(self.obj.partition_, own)
                       ELSE own]

(***************************************************************************)
(* The lifetime of a task.  The consumer holds the only shared_ptr to the  *)
(* task the materializer made; the sequence Execute returns holds, in its  *)
(* lambdas, a reference to *filter_ and the address of projector_ and      *)
(* nothing that keeps the task alive.  A task is alive while its           *)
(* projector_ member is.  Reading a member of a destroyed task is          *)
(* undefined: it gives what the member held, anything else of its type, or *)
(* ends the process.                                                       *)
(***************************************************************************)
TaskAlive(t) ==
    projectors[OwnProjector(t)].live

\* What the lambda of FilterRecordBatch may read through `filter`.
FilterRef(t) ==
    IF TaskAlive(t)
    THEN {dtask[t].obj.filter_}
    ELSE {dtask[t].obj.filter_} \cup Filters

\* What the lambda of ProjectRecordBatch may read through `projector`.
ProjectorRef(t) ==
    IF TaskAlive(t)
    THEN {projectors[OwnProjector(t)]}
    ELSE {[live |-> TRUE, defaults |-> d] : d \in Partitions}

\* A worker calls Execute on task t.
CallExecute(t) ==
    /\ dtask[t].pc = "unexecuted"
    /\ TaskAlive(t)
    /\ \E taskOk \in BOOLEAN, keysOk \in BOOLEAN :
          LET r == Execute(dtask[t], options, projectors[OwnProjector(t)],
                           taskOk, keysOk)
          IN  /\ dtask' = [dtask EXCEPT ![t] = r.self]
              /\ projectors' =
                    [projectors EXCEPT ![OwnProjector(t)] = r.projector_]
    /\ UNCHANGED <<options, scanVars>>

\* The consumer calls Next() on the sequence of task t.  The lambda of
\* FilterRecordBatch is called, and reads `filter`, when the inner iterator
\* gives a batch.
PullFilter(t) ==
    /\ dtask[t].pc = "ready"
    /\ LET self == dtask[t]
           stale == self.pos < Len(self.inner) /\ ~TaskAlive(t)
       IN  \/ \E evalOk \in BOOLEAN, filterOk \in BOOLEAN, f \in FilterRef(t) :
                 dtask' = [dtask EXCEPT ![t] =
                     [FilterNext([self EXCEPT !.obj.filter_ = f],
                                 evalOk, filterOk)
                         EXCEPT !.obj.filter_ = self.obj.filter_,
                                !.dangling = @ + (IF stale THEN 1 ELSE 0)]]
           \/ /\ stale
              /\ dtask' = [dtask EXCEPT ![t].pc = "crashed",
                                        ![t].pulls = @ + 1,
                                        ![t].dangling = @ + 1]
    /\ UNCHANGED <<options, projectors, scanVars>>

\* The ProjectRecordBatch lambda copies the task's projector_:
\* RecordBatchProjector local_projector{*projector}.
ProjectCopy_once(t) ==
    /\ dtask[t].pc = "filtered"
    /\ IF dtask[t].calls.copy = 0
       THEN /\ projectors' = [projectors EXCEPT
                   ![LocalProjector(t)] = projectors[OwnProjector(t)]]
            /\ dtask' = [dtask EXCEPT ![t].pc = "copied",
                                      ![t].calls.copy = @ + 1]
       ELSE /\ projectors' = [projectors EXCEPT
                   ![LocalProjector(t)] = projectors[OwnProjector(t)]]
            /\ dtask' = [dtask EXCEPT ![t].pc = "copied"]
    /\ UNCHANGED <<options, scanVars>>

ProjectCopy(t) ==
    /\ dtask[t].pc = "filtered"
    /\ \/ /\ \E p \in ProjectorRef(t) :
                projectors' = [projectors EXCEPT ![LocalProjector(t)] = p]
          /\ dtask' = [dtask EXCEPT
                          ![t].pc = "copied",
                          ![t].calls.copy = @ + 1,
                          ![t].dangling =
                              @ + (IF TaskAlive(t) THEN 0 ELSE 1)]
       \/ /\ ~TaskAlive(t)
          /\ dtask' = [dtask EXCEPT ![t].pc = "crashed",
                                    ![t].cur = NoBatch,
                                    ![t].dangling = @ + 1]
          /\ UNCHANGED projectors
    /\ UNCHANGED <<options, scanVars>>

\* The lambda projects the batch with its copy, which ends with the call;
\* the result is the result of the consumer's Next().
ProjectBatch(t) ==
    /\ dtask[t].pc = "copied"
    /\ \E projectOk \in BOOLEAN :
          dtask' = [dtask EXCEPT
                      ![t].out = Append(@,
                          ProjectRecordBatch(projectors[LocalProjector(t)],
                                             dtask[t].cur, projectOk)),
                      ![t].cur = NoBatch,
                      ![t].pc = "ready",
                      ![t].calls.project = @ + 1]
    /\ projectors' = [projectors EXCEPT ![LocalProjector(t)] = Destroyed]
    /\ UNCHANGED <<options, scanVars>>

(***************************************************************************)
(* The materializer alone: no decorated task is executed.                  *)
(***************************************************************************)
NoTasks ==
    /\ options = [filter |-> NullExpression]
    /\ dtask = [t \in Tasks |-> AbsentTask]
    /\ projectors = [i \in Instances |->
                        IF i = Template THEN TemplateProjector ELSE Destroyed]

Init ==
    /\ ScanInit
    /\ NoTasks

Next ==
    Pull

Spec ==
    Init /\ [][Next]_vars

\* The materializer with a consumer that keeps pulling until the end.
SpecLive ==
    Init /\ [][Next]_vars /\ WF_vars(Pull)

(***************************************************************************)
(* Decorated tasks sharing one ScanOptions: one task over every inner      *)
(* sequence of at most MaxBatches batches, or both tasks side by side over *)
(* PairInner; every global filter, every partition expression.  The        *)
(* constructor copies the options' projector into projector_.              *)
(***************************************************************************)
Constructed(present) ==
    [i \in Instances |->
        IF i = Template \/ \E t \in present : i = OwnProjector(t)
        THEN TemplateProjector
        ELSE Destroyed]

InitTask ==
    /\ fragments = <<>>
    /\ flat = [k \in {"parent", "child"} |-> GetScanTaskIterator(<<>>)[k]]
    /\ scanCalls = <<>>
    /\ yielded = <<>>
    /\ done = FALSE
    /\ options \in [filter : Filters]
    /\ \/ /\ \E p \in Partitions, in \in InnerSeqs :
                dtask = [t \in Tasks |->
                           IF t = 1 THEN NewTask(t, p, in) ELSE AbsentTask]
          /\ projectors = Constructed({1})
       \/ /\ \E p \in [Tasks -> Partitions] :
                dtask = [t \in Tasks |-> NewTask(t, p[t], PairInner)]
          /\ projectors = Constructed(Tasks)

NextTask ==
    \E t \in Tasks :
        \/ CallExecute(t)
        \/ PullFilter(t)
        \/ ProjectCopy(t)
        \/ ProjectBatch(t)

SpecTask ==
    InitTask /\ [][NextTask]_vars

(***************************************************************************)
(* The consumer drops the sequence of task t between two pulls.  The       *)
(* iterators and their lambdas are destroyed; the lambdas own no           *)
(* projector (local_projector lives within one call), so no projector      *)
(* instance ends with them.                                                *)
(***************************************************************************)
Discard_destroysProjector(t) ==
    /\ dtask[t].pc \in {"ready", "ended"}
    /\ dtask' = [dtask EXCEPT ![t].pc = "discarded"]
    /\ projectors' = [projectors EXCEPT ![OwnProjector(t)].live = FALSE]
    /\ UNCHANGED <<options, scanVars>>

Discard(t) ==
    /\ dtask[t].pc \in {"ready", "ended"}
    /\ dtask' = [dtask EXCEPT ![t].pc = "discarded"]
    /\ UNCHANGED <<options, projectors, scanVars>>

\* The consumer drops its shared_ptr to task t, between two calls: the
\* task is destroyed, and its members filter_ and projector_ with it.
ReleaseTask(t) ==
    /\ dtask[t].pc \notin {"absent", "filtered", "copied", "crashed"}
    /\ TaskAlive(t)
    /\ projectors' = [projectors EXCEPT ![OwnProjector(t)].live = FALSE]
    /\ UNCHANGED <<options, dtask, scanVars>>

(***************************************************************************)
(* Decorated tasks whose consumer may drop the sequence and the task at    *)
(* any time between its calls: one task with any partition expression over *)
(* PairInner, or two tasks with different partition expressions over      *)
(* PairInner each; the global filter is x == a and region == west.         *)
(***************************************************************************)
LifetimeFilter ==
    Conj({Cmp("x", "a"), Cmp(PartitionKey, "west")})

InitLifetime ==
    /\ fragments = <<>>
    /\ flat = [k \in {"parent", "child"} |-> GetScanTaskIterator(<<>>)[k]]
    /\ scanCalls = <<>>
    /\ yielded = <<>>
    /\ done = FALSE
    /\ options = [filter |-> LifetimeFilter]
    /\ \/ /\ \E p \in Partitions :
                dtask = [t \in Tasks |->
                           IF t = 1 THEN NewTask(t, p, PairInner)
                           ELSE AbsentTask]
          /\ projectors = Constructed({1})
       \/ /\ dtask = [t \in Tasks |->
                         NewTask(t, IF t = 1 THEN "east" ELSE "west",
                                 PairInner)]
          /\ projectors = Constructed(Tasks)

NextLifetime ==
    \E t \in Tasks :
        \/ CallExecute(t)
        \/ PullFilter(t)
        \/ ProjectCopy(t)
        \/ ProjectBatch(t)
        \/ Discard(t)
        \/ ReleaseTask(t)

SpecLifetime ==
    InitLifetime /\ [][NextLifetime]_vars

(***************************************************************************)
(* What the flattened sequence is expected to be, written from the input   *)
(* alone: fragment by fragment, a failing Scan contributing one error and  *)
(* a succeeding one its raw tasks in their own order.                      *)
(***************************************************************************)
Contribution(frags, i) ==
    IF frags[i].scanOk
    THEN [k \in 1 .. frags[i].tasks |-> [kind |-> "value", raw |-> <<i, k>>]]
    ELSE <<[kind |-> "error", raw |-> <<i, 0>>]>>

RECURSIVE ExpectedUpTo(_, _)
ExpectedUpTo(frags, n) ==
    IF n = 0 THEN <<>>
    ELSE ExpectedUpTo(frags, n - 1) \o Contribution(frags, n)

Expected(frags) ==
    ExpectedUpTo(frags, Len(frags))

\* What the consumer got, reduced to kind and raw task.
Got(k) ==
    [kind |-> yielded[k].kind,
     raw |-> <<yielded[k].value.frag, yielded[k].value.idx>>]

AllScansSucceed ==
    \A i \in 1 .. Len(fragments) : fragments[i].scanOk

\* The result the next Next() of the flattened iterator would give.
NextResult ==
    FlattenNext(fragments, [parent |-> flat.parent, child |-> flat.child,
                            scans |-> scanCalls]).result

(***************************************************************************)
(* C1: when every fragment's Scan succeeds, the flattened sequence yields  *)
(* exactly one decorated task (a FilterAndProjectScanTask) per raw task,   *)
(* in fragment order and within a fragment in the fragment's own task      *)
(* order, and then the end of the sequence.                                *)
(***************************************************************************)
C1_FlatteningOrder ==
    AllScansSucceed =>
        /\ Len(yielded) <= Len(Expected(fragments))
        /\ \A k \in 1 .. Len(yielded) :
              /\ Got(k) = Expected(fragments)[k]
              /\ yielded[k].value.class = "FilterAndProjectScanTask"
        /\ done => Len(yielded) = Len(Expected(fragments))
        /\ (~done /\ Len(yielded) = Len(Expected(fragments)))
              => NextResult.kind = "end"

\* Task counts [2, 3]: five tasks were yielded and then the end.
C1_Witness ==
    /\ Len(fragments) = 2
    /\ AllScansSucceed
    /\ fragments[1].tasks = 2
    /\ fragments[2].tasks = 3
    /\ Len(yielded) = 5
    /\ done

(***************************************************************************)
(* C2: the materializer is pull-driven.  Before the first Next() no        *)
(* fragment's Scan has been invoked; fragments are scanned in order, each  *)
(* at most once; tasks come only from scanned fragments; and a step that   *)
(* invokes a Scan starts from a state where the consumer already holds     *)
(* every element of the fragments scanned before.                          *)
(***************************************************************************)
C2_ScanStaysBehindPulls ==
    /\ (Len(yielded) = 0 /\ ~done) => scanCalls = <<>>
    /\ scanCalls = [i \in 1 .. flat.parent |-> i]
    /\ \A k \in 1 .. Len(yielded) :
          \E j \in 1 .. Len(scanCalls) : scanCalls[j] = yielded[k].value.frag

\* C2: the state part holds always, and a Scan is invoked only by a step
\* that starts with all elements of the earlier fragments pulled.
C2_PullDriven ==
    /\ []C2_ScanStaysBehindPulls
    /\ [][scanCalls' # scanCalls =>
            Len(yielded) = Len(ExpectedUpTo(fragments, Len(scanCalls)))]_vars

\* Fragment 2 was scanned after the two or more tasks of fragment 1 had
\* all been pulled.
C2_Witness ==
    /\ scanCalls = <<1, 2>>
    /\ fragments[1].scanOk
    /\ fragments[1].tasks >= 2
    /\ fragments[2].scanOk
    /\ fragments[2].tasks >= 1
    /\ Len(yielded) = fragments[1].tasks + 1

(***************************************************************************)
(* C3: a fragment whose Scan fails contributes exactly one error element   *)
(* and no task, and the flattened sequence goes on with the following      *)
(* fragments: what the consumer gets is always a prefix of the expected    *)
(* sequence, all of it once the end is reached, and an error is never the  *)
(* end.                                                                    *)
(***************************************************************************)
C3_FailureIsolation ==
    /\ Len(yielded) <= Len(Expected(fragments))
    /\ \A k \in 1 .. Len(yielded) : Got(k) = Expected(fragments)[k]
    /\ done => Len(yielded) = Len(Expected(fragments))
    /\ \A i \in 1 .. flat.parent :
          ~fragments[i].scanOk =>
              /\ Cardinality({k \in 1 .. Len(yielded) :
                                 yielded[k].value.frag = i}) = 1
              /\ \A k \in 1 .. Len(yielded) :
                    yielded[k].value.frag = i => yielded[k].kind = "error"

\* Fragment 1's Scan failed, fragment 2's tasks followed the error.
C3_Witness ==
    /\ Len(fragments) = 2
    /\ ~fragments[1].scanOk
    /\ fragments[2].scanOk
    /\ fragments[2].tasks >= 2
    /\ Len(yielded) = 1 + fragments[2].tasks
    /\ yielded[1].kind = "error"
    /\ yielded[2].kind = "value"
    /\ done

(***************************************************************************)
(* Reading the decorated tasks.                                            *)
(***************************************************************************)
Present ==
    {t \in Tasks : dtask[t].pc # "absent"}

\* 1 while a batch of task t is between the inner iterator and the consumer.
InFlight(t) ==
    IF dtask[t].pc \in {"filtered", "copied"} THEN 1 ELSE 0

\* The inner batch a yielded batch was made from.
InnerOf(t, b) ==
    dtask[t].inner[b.no]

\* A row as the dataset holds it: a row of a batch without the partition
\* column has the value the fragment's partition expression binds.
LogicalRow(row, partition) ==
    IF row.region = NULLPTR /\ partition # NULLPTR
    THEN [row EXCEPT !.region = partition]
    ELSE row

Holds(filter, row) ==
    /\ ~filter.never
    /\ \A c \in filter.atoms : Field(row, c.field) = c.value

\* Every row of the batch satisfies the partition expression.
RowsSatisfy(batch, partition) ==
    \/ partition = NULLPTR
    \/ \A k \in 1 .. Len(batch.rows) :
          LogicalRow(batch.rows[k], partition).region = partition

Keys(rows) ==
    [k \in 1 .. Len(rows) |-> <<rows[k].id, rows[k].x>>]

RowsHolding(filter, batch, partition) ==
    SelectSeq(batch.rows, LAMBDA r : Holds(filter, LogicalRow(r, partition)))

(***************************************************************************)
(* C4: for a decorated task with partition expression P whose inner batch  *)
(* holds only rows satisfying P, and global filter G, every batch the      *)
(* task's sequence yields holds exactly the rows of the inner batch it was *)
(* made from that satisfy G, in their order: none that violates G, and     *)
(* none lost to the specialization G.Assume(P).                            *)
(***************************************************************************)
C4_RowsSatisfyingFilter ==
    \A t \in Tasks :
        \A k \in 1 .. Len(dtask[t].out) :
            LET r == dtask[t].out[k]
            IN  (r.kind = "value"
                    /\ RowsSatisfy(InnerOf(t, r.batch), dtask[t].obj.partition_))
                => Keys(r.batch.rows) =
                      Keys(RowsHolding(options.filter, InnerOf(t, r.batch),
                                       dtask[t].obj.partition_))

\* Partition region == west, filter x == a and region == west, a batch
\* without the region column: the row with x == a was yielded, alone.
C4_Witness ==
    \E t \in Tasks :
        /\ dtask[t].obj.partition_ = "west"
        /\ options.filter = Conj({Cmp("x", "a"), Cmp(PartitionKey, "west")})
        /\ Len(dtask[t].out) >= 1
        /\ dtask[t].inner[1] = BatchNoKey
        /\ dtask[t].out[1].kind = "value"
        /\ Keys(dtask[t].out[1].batch.rows) = <<<<1, "a">>>>

(***************************************************************************)
(* C5: the projector template in the shared scan options is never changed  *)
(* by a decorated task: not by its construction, its Execute (which sets   *)
(* the default values from the partition keys) or a batch pull.            *)
(***************************************************************************)
C5_TemplateUnchanged ==
    projectors[Template] = TemplateProjector

\* Both tasks set default values in their own projector_ and one of them
\* yielded a projected batch.
C5_Witness ==
    /\ Present = Tasks
    /\ \A t \in Tasks :
          /\ dtask[t].pc \in {"ready", "filtered", "copied", "ended"}
          /\ projectors[OwnProjector(t)].defaults # NULLPTR
    /\ \E t \in Tasks :
          /\ Len(dtask[t].out) >= 1
          /\ dtask[t].out[1].kind = "value"

(***************************************************************************)
(* C6: tasks that share one scan options object and are executed and       *)
(* pulled by different workers, in any interleaving, each yield the        *)
(* batches the task would yield alone: the filter specialized for its own  *)
(* partition, the default value of its own partition.  No projector        *)
(* instance belongs to two tasks, and the copy a task projects with holds  *)
(* that task's default value.                                              *)
(***************************************************************************)
Alone(t, n) ==
    LET self == dtask[t]
        in == [self.inner[n] EXCEPT !.no = n]
        f == Assume(options.filter, self.obj.partition_)
    IN  Project([live |-> TRUE, defaults |-> self.obj.partition_],
                Filter(Evaluate(f, in), in))

C6_TasksDoNotInterfere ==
    /\ \A t \in Tasks :
          /\ \A k \in 1 .. Len(dtask[t].out) :
                dtask[t].out[k].kind = "value"
                    => dtask[t].out[k].batch = Alone(t, dtask[t].out[k].batch.no)
          /\ dtask[t].pc = "copied"
                => projectors[LocalProjector(t)] =
                      [live |-> TRUE, defaults |-> dtask[t].obj.partition_]
    /\ \A t \in Tasks, u \in Tasks :
          t # u =>
              {OwnProjector(t), LocalProjector(t)}
                  \cap {OwnProjector(u), LocalProjector(u), Template} = {}

\* Two tasks with different partitions are both in the middle of a pull,
\* each holding its own copy of its projector, after each yielded a batch
\* made from the batch without the region column.
C6_Witness ==
    /\ Present = Tasks
    /\ dtask[1].obj.partition_ = "east"
    /\ dtask[2].obj.partition_ = "west"
    /\ \A t \in Tasks :
          /\ dtask[t].pc = "copied"
          /\ Len(dtask[t].out) = 1
          /\ dtask[t].out[1].kind = "value"
          /\ dtask[t].out[1].batch.no = 1

(***************************************************************************)
(* Counting the results of a task's sequence.                              *)
(***************************************************************************)
Errors(t, stage) ==
    Cardinality({k \in 1 .. Len(dtask[t].out) :
                    /\ dtask[t].out[k].kind = "error"
                    /\ dtask[t].out[k].stage = stage})

NoFailure(t) ==
    \A k \in 1 .. Len(dtask[t].out) : dtask[t].out[k].kind = "value"

\* The step appends an error to the results of task t's sequence.
YieldsError(t) ==
    /\ Len(dtask'[t].out) = Len(dtask[t].out) + 1
    /\ dtask'[t].out[Len(dtask'[t].out)].kind = "error"

\* Every inner batch taken so far gave exactly one result, at its own
\* place: the failing batch was neither skipped nor retried.
OneResultPerBatch(t) ==
    /\ Len(dtask[t].out) + InFlight(t) = dtask[t].pos
    /\ dtask[t].calls.evaluate = dtask[t].pos
    /\ \A k \in 1 .. Len(dtask[t].out) :
          dtask[t].out[k].kind = "value" => dtask[t].out[k].batch.no = k
    /\ Errors(t, "evaluate") = dtask[t].calls.evaluate - dtask[t].calls.filter
    /\ Errors(t, "filter") + Errors(t, "project")
          + Cardinality({k \in 1 .. Len(dtask[t].out) :
                            dtask[t].out[k].kind = "value"})
          + InFlight(t) = dtask[t].calls.filter

C8_InnerFailurePropagates ==
    \A t \in Tasks :
        dtask[t].pc = "innerFailed" =>
            /\ dtask[t].obj.filter_ = NullExpression
            /\ projectors[OwnProjector(t)] = TemplateProjector
            /\ projectors[LocalProjector(t)] = Destroyed
            /\ dtask[t].pos = 0
            /\ dtask[t].cur = NoBatch
            /\ dtask[t].out = <<>>
            /\ dtask[t].pulls = 0
            /\ dtask[t].calls = NoCalls

\* The inner task of a task with a partition expression and batches to
\* give failed to start.
C8_Witness ==
    \E t \in Tasks :
        /\ dtask[t].pc = "innerFailed"
        /\ dtask[t].obj.partition_ # NULLPTR
        /\ Len(dtask[t].inner) >= 1

(***************************************************************************)
(* C9: a successful Execute touches no batch, and every batch is taken,    *)
(* evaluated, filtered and projected only in answer to a pull of the       *)
(* consumer: until the first pull nothing was called, the inner iterator   *)
(* is asked once per pull, and only batches that were taken are evaluated, *)
(* only evaluated ones filtered, only filtered ones projected.             *)
(***************************************************************************)
C9_NothingBeforePull ==
    \A t \in Tasks :
        /\ dtask[t].pulls = 0 =>
              /\ dtask[t].calls = NoCalls
              /\ dtask[t].pos = 0
              /\ dtask[t].cur = NoBatch
              /\ dtask[t].out = <<>>
        /\ dtask[t].calls.next = dtask[t].pulls
        /\ dtask[t].pos <= dtask[t].pulls
        /\ dtask[t].calls.evaluate = dtask[t].pos
        /\ dtask[t].calls.filter <= dtask[t].calls.evaluate
        /\ dtask[t].calls.copy <= dtask[t].calls.filter
        /\ dtask[t].calls.project <= dtask[t].calls.copy

\* Execute succeeded on a task whose inner task has two batches, and the
\* consumer has not pulled.
C9_Witness ==
    \E t \in Tasks :
        /\ dtask[t].pc = "ready"
        /\ dtask[t].pulls = 0
        /\ ~dtask[t].obj.filter_.null
        /\ Len(dtask[t].inner) = 2

(***************************************************************************)
(* C10: when no step fails, a task's sequence yields exactly one batch per *)
(* batch of the inner task, also when the filter selects no row of it, in  *)
(* the inner task's order, and ends when the inner sequence ends.          *)
(***************************************************************************)
C10_OneBatchPerInnerBatch ==
    \A t \in Tasks :
        NoFailure(t) =>
            /\ Len(dtask[t].out) + InFlight(t) = dtask[t].pos
            /\ \A k \in 1 .. Len(dtask[t].out) : dtask[t].out[k].batch.no = k
            /\ dtask[t].pc = "ended" =>
                  /\ dtask[t].pos = Len(dtask[t].inner)
                  /\ Len(dtask[t].out) = Len(dtask[t].inner)
            /\ (dtask[t].pc = "ready" /\ dtask[t].pos = Len(dtask[t].inner))
                  => FilterNext(dtask[t], TRUE, TRUE).pc = "ended"

\* A sequence ended after yielding a batch for each of two inner batches,
\* one of them without any row.
C10_Witness ==
    \E t \in Tasks :
        /\ dtask[t].pc = "ended"
        /\ NoFailure(t)
        /\ Len(dtask[t].out) = 2
        /\ Len(dtask[t].inner) = 2
        /\ \E k \in 1 .. 2 : Len(dtask[t].out[k].batch.rows) = 0
        /\ \E k \in 1 .. 2 : Len(dtask[t].out[k].batch.rows) > 0

(***************************************************************************)
(* C11: for a task whose partition expression binds the key (region ==     *)
(* west) every batch its sequence yields from an inner batch that lacks    *)
(* the region column, the first and every later one, has the column, with  *)
(* the bound value in every row.                                           *)
(***************************************************************************)
C11_DefaultValueInjected ==
    \A t \in Tasks :
        \A k \in 1 .. Len(dtask[t].out) :
            LET r == dtask[t].out[k]
            IN  (/\ r.kind = "value"
                 /\ dtask[t].obj.partition_ # NULLPTR
                 /\ ~InnerOf(t, r.batch).hasRegion)
                => /\ r.batch.hasRegion
                   /\ \A j \in 1 .. Len(r.batch.rows) :
                         r.batch.rows[j].region = dtask[t].obj.partition_

\* Partition region == west, two inner batches without the region column:
\* both yielded batches have rows, all with region == west.
C11_Witness ==
    \E t \in Tasks :
        /\ dtask[t].obj.partition_ = "west"
        /\ dtask[t].inner = <<BatchNoKey, BatchNoKey>>
        /\ Len(dtask[t].out) = 2
        /\ \A k \in 1 .. 2 :
              /\ dtask[t].out[k].kind = "value"
              /\ Len(dtask[t].out[k].batch.rows) >= 1
              /\ \A j \in 1 .. Len(dtask[t].out[k].batch.rows) :
                    dtask[t].out[k].batch.rows[j].region = "west"

(***************************************************************************)
(* Reading the lifetime of tasks and sequences.                            *)
(***************************************************************************)
\* The step drops the sequence of task t.
Discards(t) ==
    /\ dtask[t].pc # "discarded"
    /\ dtask'[t].pc = "discarded"

\* Every batch task t yielded is the batch the task yields alone.
YieldsAsAlone(t) ==
    \A k \in 1 .. Len(dtask[t].out) :
        dtask[t].out[k].kind = "value"
            => dtask[t].out[k].batch = Alone(t, dtask[t].out[k].batch.no)

(***************************************************************************)
(* C12 as stated: discarding a task's sequence after pulling only some of  *)
(* its batches releases the projector state the sequence used: once the    *)
(* sequence is discarded, neither the projector the sequence projected     *)
(* from (the task's private clone) nor a copy of it is alive.              *)
(***************************************************************************)
C12_DiscardReleasesProjector ==
    \A t \in Tasks :
        dtask[t].pc = "discarded" =>
            /\ ~projectors[OwnProjector(t)].live
            /\ ~projectors[LocalProjector(t)].live

(***************************************************************************)
(* C12 as amended: after a task's sequence is discarded, nothing is ever   *)
(* called for it again (no inner pull, Evaluate, Filter, copy or Project)  *)
(* and it holds no batch and no projector copy (the copy made for a batch  *)
(* ended with that pull); the discard destroys no projector instance: the  *)
(* task's projector_ is left as it was and ends with the task; the discard *)
(* changes nothing of a sibling task, whose sequence goes on to yield what *)
(* that task yields alone.                                                 *)
(***************************************************************************)
C12_DiscardStopsTheSequence ==
    /\ [](\A t \in Tasks :
            /\ dtask[t].pc = "discarded" =>
                  /\ dtask[t].cur = NoBatch
                  /\ ~projectors[LocalProjector(t)].live
            /\ dtask[t].dangling = 0 => YieldsAsAlone(t))
    /\ [][\A t \in Tasks :
            /\ dtask[t].pc = "discarded" => dtask'[t] = dtask[t]
            /\ Discards(t) =>
                  /\ projectors' = projectors
                  /\ dtask'[t] = [dtask[t] EXCEPT !.pc = "discarded"]
                  /\ \A u \in Tasks \ {t} : dtask'[u] = dtask[u]]_vars

\* Task 1's sequence was discarded after one of its two batches; its
\* projector_ is still alive with its default value; task 2's sequence went
\* on to its end and yielded both its batches.
C12_Witness ==
    /\ dtask[1].pc = "discarded"
    /\ dtask[1].pos = 1
    /\ Len(dtask[1].out) = 1
    /\ Len(dtask[1].inner) = 2
    /\ projectors[OwnProjector(1)] = [live |-> TRUE, defaults |-> "east"]
    /\ dtask[2].pc = "ended"
    /\ dtask[2].dangling = 0
    /\ Len(dtask[2].out) = 2
    /\ \A k \in 1 .. 2 : dtask[2].out[k].kind = "value"

(***************************************************************************)
(* C13 as stated: ProjectRecordBatch clones the projector exactly once per *)
(* constructed sequence, not once per batch: however many batches were     *)
(* projected, one copy was made.                                           *)
(***************************************************************************)
C13_OneCopyPerSequence ==
    \A t \in Tasks :
        dtask[t].calls.project >= 1 => dtask[t].calls.copy = 1

(***************************************************************************)
(* C13 as amended: ProjectRecordBatch clones the projector inside its      *)
(* lambda, once per batch that reaches the projection: none when the       *)
(* sequence is constructed, one for every batch that was filtered without  *)
(* failure; the copy is taken from the task's projector_, projects that    *)
(* one batch and ends with the pull.                                       *)
(***************************************************************************)
C13_OneCopyPerBatch ==
    \A t \in Tasks :
        /\ dtask[t].pulls = 0 => dtask[t].calls.copy = 0
        /\ dtask[t].calls.copy = dtask[t].calls.project
              + (IF dtask[t].pc = "copied" THEN 1 ELSE 0)
        /\ dtask[t].calls.copy
              + (IF dtask[t].pc = "filtered" THEN 1 ELSE 0)
              = dtask[t].calls.filter - Errors(t, "filter")
        /\ projectors[LocalProjector(t)].live <=> dtask[t].pc = "copied"
        /\ dtask[t].pc = "copied" =>
              projectors[LocalProjector(t)] = projectors[OwnProjector(t)]

\* Two batches were pulled from a sequence and projected: two copies were
\* made, and none is alive.
C13_Witness ==
    \E t \in Tasks :
        /\ dtask[t].pc = "ready"
        /\ Len(dtask[t].out) = 2
        /\ \A k \in 1 .. 2 : dtask[t].out[k].kind = "value"
        /\ dtask[t].calls.project = 2
        /\ dtask[t].calls.copy = 2
        /\ ~projectors[LocalProjector(t)].live

(***************************************************************************)
(* C14: every decorated task the materializer yields for a fragment, the   *)
(* first and every later one, carries that fragment's partition            *)
(* expression: the k tasks of a fragment with a partition expression all   *)
(* hold it, none holds none or that of another fragment.                   *)
(***************************************************************************)
C14_TasksCarryPartition ==
    \A k \in 1 .. Len(yielded) :
        yielded[k].kind = "value" =>
            /\ yielded[k].value.class = "FilterAndProjectScanTask"
            /\ yielded[k].value.partition_ =
                  fragments[yielded[k].value.frag].partition

\* Fragments with partitions region == east (three tasks) and region ==
\* west (two tasks): all five tasks were yielded, the first three holding
\* east and the last two west.
C14_Witness ==
    /\ Len(fragments) = 2
    /\ fragments[1] = [partition |-> "east", scanOk |-> TRUE, tasks |-> 3]
    /\ fragments[2] = [partition |-> "west", scanOk |-> TRUE, tasks |-> 2]
    /\ Len(yielded) = 5
    /\ \A k \in 1 .. 3 : yielded[k].value.partition_ = "east"
    /\ \A k \in 4 .. 5 : yielded[k].value.partition_ = "west"

\* The n-th inner batch of task t filtered with predicate f.
FilteredWith(t, f, n) ==
    LET in == [dtask[t].inner[n] EXCEPT !.no = n]
    IN  Filter(Evaluate(f, in), in)

(***************************************************************************)
(* C15: a task's specialized predicate filter_ is unset until Execute; it  *)
(* is assigned by the task's Execute, once, the global filter specialized  *)
(* for the task's own partition expression, and never changes afterwards;  *)
(* every batch of the task is filtered with it; a task never filters with  *)
(* the predicate of a task that has another partition expression.          *)
(***************************************************************************)
C15_FilterSetOnceAtExecute ==
    /\ [](\A t \in Tasks :
            /\ dtask[t].pc \in {"absent", "unexecuted", "innerFailed"}
                  => dtask[t].obj.filter_ = NullExpression
            /\ dtask[t].pc \in {"defaultsFailed", "ready", "filtered",
                                 "copied", "ended"}
                  => dtask[t].obj.filter_ =
                        Assume(options.filter, dtask[t].obj.partition_)
            /\ dtask[t].pc \in {"filtered", "copied"}
                  => dtask[t].cur =
                        FilteredWith(t, dtask[t].obj.filter_, dtask[t].pos)
            /\ \A k \in 1 .. Len(dtask[t].out) :
                  dtask[t].out[k].kind = "value"
                      => Keys(dtask[t].out[k].batch.rows) =
                            Keys(FilteredWith(t, dtask[t].obj.filter_,
                                              dtask[t].out[k].batch.no).rows))
    /\ [][\A t \in Tasks :
            dtask'[t].obj.filter_ # dtask[t].obj.filter_
                => /\ dtask[t].pc = "unexecuted"
                   /\ dtask[t].obj.filter_ = NullExpression
                   /\ \A u \in Tasks \ {t} : dtask'[u] = dtask[u]]_vars

\* Tasks with partitions region == east and region == west under the
\* filter x == a and region == west: the first task's predicate is false
\* and it yielded an empty batch, the second's is x == a and it yielded
\* the row with x == a.
C15_Witness ==
    /\ options.filter = Conj({Cmp("x", "a"), Cmp(PartitionKey, "west")})
    /\ dtask[1].obj.partition_ = "east"
    /\ dtask[2].obj.partition_ = "west"
    /\ dtask[1].obj.filter_.never
    /\ dtask[2].obj.filter_ = Conj({Cmp("x", "a")})
    /\ \A t \in Tasks :
          /\ Len(dtask[t].out) = 2
          /\ \A k \in 1 .. 2 : dtask[t].out[k].kind = "value"
    /\ \A k \in 1 .. 2 : Len(dtask[1].out[k].batch.rows) = 0
    /\ \A k \in 1 .. 2 : Len(dtask[2].out[k].batch.rows) = 1

(***************************************************************************)
(* C16: on every pull the steps for the batch run in the order Evaluate,   *)
(* Filter, Project.  Filter is called only after a successful Evaluate and *)
(* the projector only on the batch Filter gave: a step that projects       *)
(* starts with the filtered batch at hand and calls neither Evaluate nor   *)
(* Filter, and a batch whose evaluation or filtering failed is never       *)
(* copied for or given to the projector.                                   *)
(***************************************************************************)
C16_EvaluateFilterProject ==
    /\ [](\A t \in Tasks :
            /\ dtask[t].calls.filter =
                  dtask[t].calls.evaluate - Errors(t, "evaluate")
            /\ dtask[t].calls.project + InFlight(t) =
                  dtask[t].calls.filter - Errors(t, "filter")
            /\ InFlight(t) = 1 =>
                  dtask[t].cur =
                      FilteredWith(t, dtask[t].obj.filter_, dtask[t].pos))
    /\ [][\A t \in Tasks :
            /\ dtask'[t].calls.project # dtask[t].calls.project =>
                  /\ dtask[t].pc = "copied"
                  /\ dtask[t].cur =
                        FilteredWith(t, dtask[t].obj.filter_, dtask[t].pos)
                  /\ dtask'[t].calls.evaluate = dtask[t].calls.evaluate
                  /\ dtask'[t].calls.filter = dtask[t].calls.filter
                  /\ dtask'[t].calls.project = dtask[t].calls.project + 1
            /\ (/\ YieldsError(t)
                /\ dtask'[t].out[Len(dtask'[t].out)].stage
                      \in {"evaluate", "filter"}) =>
                  /\ dtask'[t].calls.copy = dtask[t].calls.copy
                  /\ dtask'[t].calls.project = dtask[t].calls.project
                  /\ dtask'[t].pc = "ready"
                  /\ dtask'[t].cur = NoBatch]_vars

\* The filtering of a task's first batch failed and its second batch was
\* evaluated, filtered and projected: two Evaluate and two Filter calls,
\* one copy and one Project call.
C16_Witness ==
    \E t \in Tasks :
        /\ Len(dtask[t].out) = 2
        /\ dtask[t].out[1].kind = "error"
        /\ dtask[t].out[1].stage = "filter"
        /\ dtask[t].out[2].kind = "value"
        /\ dtask[t].calls = [next |-> 2, evaluate |-> 2, filter |-> 2,
                             copy |-> 1, project |-> 1]

(***************************************************************************)
(* C17: for a task without a partition expression, Execute succeeds        *)
(* whenever the inner task starts (SetDefaultValuesFromKeys is not called, *)
(* so it cannot fail), the predicate it filters with is the global filter  *)
(* unchanged, and its projector_ keeps the default values it was           *)
(* constructed with: a batch that lacks the partition column gets no       *)
(* value for it.                                                           *)
(***************************************************************************)
C17_NoPartitionNoDefaults ==
    \A t \in Tasks :
        (dtask[t].obj.partition_ = NULLPTR
            /\ dtask[t].pc \notin {"absent", "unexecuted", "innerFailed"})
        => /\ dtask[t].pc # "defaultsFailed"
           /\ dtask[t].obj.filter_ = options.filter
           /\ projectors[OwnProjector(t)] = TemplateProjector
           /\ \A k \in 1 .. Len(dtask[t].out) :
                 dtask[t].out[k].kind = "value" =>
                     /\ Keys(dtask[t].out[k].batch.rows) =
                           Keys(FilteredWith(t, options.filter,
                                             dtask[t].out[k].batch.no).rows)
                     /\ ~InnerOf(t, dtask[t].out[k].batch).hasRegion =>
                           \A j \in 1 .. Len(dtask[t].out[k].batch.rows) :
                               dtask[t].out[k].batch.rows[j].region = NULLPTR

\* A task without a partition expression under the filter x == a was
\* executed and yielded, from the batch without the region column, the
\* row with x == a, its region without a value.
C17_Witness ==
    \E t \in Tasks :
        /\ dtask[t].obj.partition_ = NULLPTR
        /\ options.filter = Conj({Cmp("x", "a")})
        /\ dtask[t].obj.filter_ = Conj({Cmp("x", "a")})
        /\ Len(dtask[t].inner) >= 1
        /\ dtask[t].inner[1] = BatchNoKey
        /\ Len(dtask[t].out) >= 1
        /\ dtask[t].out[1].kind = "value"
        /\ Keys(dtask[t].out[1].batch.rows) = <<<<1, "a">>>>
        /\ dtask[t].out[1].batch.rows[1].region = NULLPTR

(***************************************************************************)
(* C18: the sequence a task's Execute returned never reads the task's      *)
(* projector_ or filter_ after the task was destroyed, in whatever order   *)
(* the consumer drops the task and pulls batches.                          *)
(***************************************************************************)
C18_NoAccessAfterDestruction ==
    \A t \in Tasks : dtask[t].dangling = 0

(***************************************************************************)
(* C19: when the inner task starts but SetDefaultValuesFromKeys fails,     *)
(* Execute returns that failure and no sequence: no batch was taken from   *)
(* the inner task's sequence, nothing was evaluated, filtered, copied or   *)
(* projected, and nothing ever is, as there is no sequence to pull.        *)
(***************************************************************************)
C19_DefaultsFailureBeforeAnyBatch ==
    /\ [](\A t \in Tasks :
            dtask[t].pc = "defaultsFailed" =>
                /\ dtask[t].obj.partition_ # NULLPTR
                /\ dtask[t].pos = 0
                /\ dtask[t].cur = NoBatch
                /\ dtask[t].out = <<>>
                /\ dtask[t].pulls = 0
                /\ dtask[t].calls = NoCalls
                /\ ~projectors[LocalProjector(t)].live)
    /\ [][\A t \in Tasks :
            dtask[t].pc = "defaultsFailed" => dtask'[t] = dtask[t]]_vars

\* Setting the default values failed for a task whose inner task started
\* and has two batches to give; the predicate had been specialized.
C19_Witness ==
    \E t \in Tasks :
        /\ dtask[t].pc = "defaultsFailed"
        /\ Len(dtask[t].inner) = 2
        /\ dtask[t].obj.partition_ = "west"
        /\ ~dtask[t].obj.filter_.null

(***************************************************************************)
(* The number of elements of the flattened sequence: the raw tasks of the  *)
(* fragments whose Scan succeeds plus one per fragment whose Scan fails.   *)
(***************************************************************************)
RECURSIVE ElementCount(_, _)
ElementCount(frags, n) ==
    IF n = 0 THEN 0
    ELSE ElementCount(frags, n - 1)
            + (IF frags[n].scanOk THEN frags[n].tasks ELSE 1)

(***************************************************************************)
(* C20: over a finite sequence of fragments with finitely many tasks each, *)
(* a consumer that keeps pulling eventually gets the end of the flattened  *)
(* sequence, also when a Scan fails or a fragment has no task, and has by  *)
(* then received as many elements as there are raw tasks in the fragments  *)
(* whose Scan succeeds plus fragments whose Scan fails.                    *)
(***************************************************************************)
C20_PullingReachesTheEnd ==
    /\ <>done
    /\ [](done =>
            Len(yielded) = ElementCount(fragments, Len(fragments)))
    /\ [](Len(yielded) <= ElementCount(fragments, Len(fragments)))

\* The Scan of fragment 1 failed and fragment 2 has no task: the end came
\* after one element, the error.
C20_Witness ==
    /\ Len(fragments) = 2
    /\ ~fragments[1].scanOk
    /\ fragments[2].scanOk
    /\ fragments[2].tasks = 0
    /\ Len(yielded) = 1
    /\ scanCalls = <<1, 2>>
    /\ done

=============================================================================
